---- MODULE Spec2Model ----
(***************************************************************************)
(* The rate-limiting middleware of src/server/api/trpc.ts: the startup     *)
(* validation of the window string, the caller identity, the consult of    *)
(* the shared counter store, the quota headers, the rejection, and the two *)
(* procedure classes built from it.                                        *)
(*                                                                         *)
(* Strings are sequences of one-character strings, so that concatenation,  *)
(* the regular expression and parseInt are computed, not assumed.          *)
(***************************************************************************)
EXTENDS Integers, Sequences, FiniteSets, TLC

VARIABLES
    env,        \* the process environment read through ~/env.mjs
    loaded,     \* whether the module body of trpc.ts has run
    interval,   \* UPSTASH_RATELIMITER_TIME_INTERVAL, the module constant
    now,        \* the store's clock, in seconds
    store,      \* the external counter store: identity key -> window record
    calls,      \* per server instance: the call it is handling
    started,    \* calls started so far
    hist,       \* per identity key: what has happened to it (observation only)
    searchValue,    \* search page: the city in the input field
    findCityById,   \* search page: the query api.search.findCityById
    findCityByName, \* search page: the query api.search.findCityByName
    addedCities,    \* addedCities$: the saved cities
    activeCity,     \* activeCity$: the city shown on /home
    runs,           \* searchCity runs so far
    lastRun         \* how the last searchCity run ended (observation only)

searchVars ==
    <<searchValue, findCityById, findCityByName, addedCities, activeCity,
      runs, lastRun>>

vars ==
    <<env, loaded, interval, now, store, calls, started, hist, searchVars>>

----------------------------------------------------------------------------
\* Bounds of the model.

\* Longest configured window string tried at startup.
MaxLen == 3
\* The clock stops advancing here.
MaxTime == 3
\* Calls started in one behaviour.
MaxCalls == 3
\* searchCity runs in one behaviour.
MaxRuns == 3

----------------------------------------------------------------------------
\* Strings.

Digits == {"0", "1", "2", "3", "4", "5", "6", "7", "8", "9"}

DigitVal(c) ==
    CASE c = "0" -> 0 [] c = "1" -> 1 [] c = "2" -> 2 [] c = "3" -> 3
      [] c = "4" -> 4 [] c = "5" -> 5 [] c = "6" -> 6 [] c = "7" -> 7
      [] c = "8" -> 8 [] c = "9" -> 9

\* All strings over alphabet A of length at most n.
StringsUpTo(A, n) == UNION {[1..k -> A] : k \in 0..n}

\* Whether string s has string u at position i (1-based).
HasAt(s, i, u) ==
    /\ i + Len(u) - 1 <= Len(s)
    /\ \A j \in 1..Len(u) : s[i + j - 1] = u[j]

----------------------------------------------------------------------------
\* Startup configuration (trpc.ts, module body).

\* JavaScript parseInt on a string: the value of its leading run of decimal
\* digits, NaN when there is none.
NaN == "NaN"

RECURSIVE DigitsValue(_, _)
DigitsValue(s, acc) ==
    IF s = <<>> \/ Head(s) \notin Digits THEN acc
    ELSE DigitsValue(Tail(s), 10 * acc + DigitVal(Head(s)))

parseInt(s) ==
    IF s = <<>> \/ Head(s) \notin Digits THEN NaN ELSE DigitsValue(s, 0)

\* The alternatives of the second group of durationRegex, in order.
UnitAlternatives == {<<"m", "s">>, <<"s">>, <<"m">>, <<"h">>, <<"d">>}

\* Positions the matcher can be at after (\d+) started at position i:
\* one or more digits, any number of them given up by backtracking.
AfterDigits(s, i) ==
    {j \in (i + 1)..(Len(s) + 1) : \A k \in i..(j - 1) : s[k] \in Digits}

\* Positions the matcher can be at after (ms|s|m|h|d) started at position i.
AfterUnit(s, i) ==
    {i + Len(u) : u \in {v \in UnitAlternatives : HasAt(s, i, v)}}

\* validateDuration with the $ left out of the expression.
validateDurationUnanchored(value) ==
    \E j \in AfterDigits(value, 1) : AfterUnit(value, j) # {}

\* /^(\d+)(ms|s|m|h|d)$/.test(value): ^ pins the start to position 1 and $
\* (no multiline flag) the end to the end of the input.
validateDuration(value) ==
    \E j \in AfterDigits(value, 1) : (Len(value) + 1) \in AfterUnit(value, j)

DefaultInterval == <<"1", "d">>

\* const UPSTASH_RATELIMITER_TIME_INTERVAL = validateDuration(e) ? e : "1d"
TimeInterval(e) ==
    IF validateDuration(e) THEN e ELSE DefaultInterval

\* The token budget the limiter is constructed with.
TokensPerTime(e) == parseInt(e.UPSTASH_RATELIMITER_TOKENS_PER_TIME)

\* Seconds in a validated duration string, as the limiter reads it.
UnitSeconds(u) ==
    CASE u = <<"s">> -> 1
      [] u = <<"m">> -> 60
      [] u = <<"h">> -> 3600
      [] u = <<"d">> -> 86400

WindowSeconds(d) ==
    LET k == Cardinality({j \in 1..Len(d) : \A i \in 1..j : d[i] \in Digits})
        n == DigitsValue(SubSeq(d, 1, k), 0)
        u == SubSeq(d, k + 1, Len(d))
    IN  IF u = <<"m", "s">> THEN n \div 1000 ELSE n * UnitSeconds(u)

----------------------------------------------------------------------------
\* Requests.

\* Values of the x-forwarded-for header (an IPv6 address holds colons).
IPs == {<<"1", ":", "2">>}

\* Procedure paths (tRPC joins router and procedure names with dots).
Paths == {<<"a">>, <<"a", ".", "b">>}

\* The server instances; each handles one call at a time.
Instances == {"s1", "s2"}

\* identifier with the path left out: one key per address.
identifierOfAddress(ip, path) == ip \o <<":">>

\* const identifier = `${ctx.ip}:${path}`
identifier(ip, path) == ip \o <<":">> \o path

Identifiers == {identifier(ip, p) : ip \in IPs, p \in Paths}

\* createTRPCContext: the caller address and the response object, whose
\* headers are still unset.
createTRPCContext(req) ==
    [ip |-> req.xForwardedFor, res |-> <<>>]

\* res.setHeader(name, value): sets or replaces one header.
setHeader(res, name, value) ==
    [h \in (DOMAIN res) \cup {name} |-> IF h = name THEN value ELSE res[h]]

----------------------------------------------------------------------------
\* The counter store behind ratelimit.limit(identifier).

\* A key the store does not hold.
Absent == [count |-> 0, expiry |-> 0]

\* Live with a record kept one tick past its window.
LiveInclusive(rec, t) == rec.count > 0 /\ t <= rec.expiry

\* Whether the store still holds a record: it expires once its window elapsed.
Live(rec, t) == rec.count > 0 /\ t < rec.expiry

\* limit that writes back the count it read when another increment is already
\* in the window: an update is lost.
limitLostUpdate(rec, t, n, w) ==
    LET count == IF Live(rec, t) THEN rec.count ELSE 1
        expiry == IF Live(rec, t) THEN rec.expiry ELSE t + w
    IN  [rec |-> [count |-> count, expiry |-> expiry],
         count |-> count,
         success |-> ~(count > n),
         remaining |-> IF count > n THEN 0 ELSE n - count]

\* One atomic increment-and-read of a key's record at time t, for budget n
\* and window w: the record afterwards, the post-increment count and the
\* decision.
limit(rec, t, n, w) ==
    LET count == IF Live(rec, t) THEN rec.count + 1 ELSE 1
        expiry == IF Live(rec, t) THEN rec.expiry ELSE t + w
    IN  [rec |-> [count |-> count, expiry |-> expiry],
         count |-> count,
         success |-> ~(count > n),
         remaining |-> IF count > n THEN 0 ELSE n - count]

----------------------------------------------------------------------------
\* The middleware and the two procedure classes.

\* rateLimitedProcedure without its .use(rateLimitMiddleware).
rateLimitedProcedureBare == <<>>

\* The middleware chain in front of each class's handler.
publicProcedure == <<>>
rateLimitedProcedure == <<"rateLimitMiddleware">>

Classes == {"public", "rateLimited"}

Chain(class) ==
    IF class = "public" THEN publicProcedure ELSE rateLimitedProcedure

NoOutcome == [type |-> "none"]
Result == [type |-> "result"]

\* new TRPCError({code, message})
TRPCError(code, message) ==
    [type |-> "error", code |-> code, message |-> message]

\* The rejection the middleware throws when the decision is not a success.
RateLimitError == TRPCError("INTERNAL_SERVER_ERROR", "Rate limit exceeded")

\* What the caller gets when the store call throws: the framework wraps an
\* error that is not a TRPCError into a generic internal error.
StoreError == TRPCError("INTERNAL_SERVER_ERROR", "store unavailable")

\* An instance that is handling no call.
Idle ==
    [pc |-> "idle", class |-> "none", ip |-> <<>>, path |-> <<>>,
     identifier |-> <<>>, success |-> FALSE, remaining |-> 0, res |-> <<>>,
     warned |-> FALSE, outcome |-> NoOutcome, disconnected |-> FALSE,
     consulted |-> "no", consults |-> 0, count |-> 0, window |-> 0,
     afterWindow |-> FALSE]

\* A call enters its procedure: with no middleware in front, the handler is
\* next; the rate-limit middleware computes the identifier and awaits
\* ratelimit.limit(identifier).
Enter(class, req) ==
    LET ctx == createTRPCContext(req)
        c == [Idle EXCEPT !.class = class, !.ip = ctx.ip, !.path = req.path,
                          !.res = ctx.res]
    IN  IF Chain(class) = <<>>
        THEN [c EXCEPT !.pc = "handler"]
        ELSE [c EXCEPT !.pc = "await",
                       !.identifier = identifier(ctx.ip, req.path)]

\* Resume with the test of the decision inverted.
ResumeInverted(c, e) ==
    LET res1 == setHeader(c.res, "X-RateLimit-Limit",
                          e.UPSTASH_RATELIMITER_TOKENS_PER_TIME)
        res2 == setHeader(res1, "X-RateLimit-Remaining", c.remaining)
    IN  IF c.success
        THEN [c EXCEPT !.res = res2, !.warned = TRUE, !.pc = "done",
                       !.outcome = RateLimitError]
        ELSE [c EXCEPT !.res = res2, !.pc = "handler"]

\* Resume that warns about a denied call but does not throw.
ResumeNoThrow(c, e) ==
    LET res1 == setHeader(c.res, "X-RateLimit-Limit",
                          e.UPSTASH_RATELIMITER_TOKENS_PER_TIME)
        res2 == setHeader(res1, "X-RateLimit-Remaining", c.remaining)
    IN  [c EXCEPT !.res = res2, !.warned = ~c.success, !.pc = "handler"]

\* Resume that sets the headers after the test, so only on the way to next().
ResumeHeadersOnAllow(c, e) ==
    LET res1 == setHeader(c.res, "X-RateLimit-Limit",
                          e.UPSTASH_RATELIMITER_TOKENS_PER_TIME)
        res2 == setHeader(res1, "X-RateLimit-Remaining", c.remaining)
    IN  IF ~c.success
        THEN [c EXCEPT !.warned = TRUE, !.pc = "done",
                       !.outcome = RateLimitError]
        ELSE [c EXCEPT !.res = res2, !.pc = "handler"]

\* The middleware from the point where the awaited decision arrives: both
\* headers, then the rejection or next().
Resume(c, e) ==
    LET res1 == setHeader(c.res, "X-RateLimit-Limit",
                          e.UPSTASH_RATELIMITER_TOKENS_PER_TIME)
        res2 == setHeader(res1, "X-RateLimit-Remaining", c.remaining)
    IN  IF ~c.success
        THEN [c EXCEPT !.res = res2, !.warned = TRUE, !.pc = "done",
                       !.outcome = RateLimitError]
        ELSE [c EXCEPT !.res = res2, !.pc = "handler"]

\* Throw with the store error caught and ratelimit.limit awaited again.
ThrowRetry(c) ==
    [c EXCEPT !.pc = "await"]

\* Throw with the store error caught and the call let through.
ThrowFailOpen(c) ==
    [c EXCEPT !.pc = "handler"]

\* The middleware when the awaited store call throws: nothing catches it, so
\* the call ends with the error.
Throw(c) ==
    [c EXCEPT !.pc = "done", !.outcome = StoreError]

----------------------------------------------------------------------------
\* The search page.

\* ICity.
City(id, name, country, coord) ==
    [id |-> id, name |-> name, country |-> country, region |-> <<>>,
     coord |-> coord]

\* Coordinates the browser's geolocation may report.
Coords == {[lon |-> 0, lat |-> 0], [lon |-> 1, lat |-> 1]}

\* useState<ICity>({id: 0, name: "", country: "", region: "", coord: {0, 0}})
EmptyCity == City(0, <<>>, <<>>, [lon |-> 0, lat |-> 0])

\* The cities the lookup service knows.
Catalog ==
    {City(1, <<"a">>, <<"X">>, [lon |-> 0, lat |-> 0]),
     City(2, <<"a", "b">>, <<>>, [lon |-> 1, lat |-> 1])}

\* translationCommon("my city")
MyCityName == <<"m">>

\* The city the "my city" button puts in the input for a reported position.
MyCity(coord) == City(-1, MyCityName, <<>>, coord)

\* What can be typed into the input field.
TypedNames == {<<>>, <<"a">>, <<"a", "b">>, <<"z">>}

\* A query whose data is undefined reads as the default, an empty array.
NoData == [isArray |-> TRUE]

\* A query result {city}: city is undefined (no element) or one city.
Found(cities) == [isArray |-> FALSE, city |-> cities]

Loading == [status |-> "loading", data |-> NoData]

\* The answers of the lookup service.
CityById(id) == Found({c \in Catalog : c.id = id})
CityByName(name) == Found({c \in Catalog : c.name = name})

\* The queries after the input changed from old to new: a query whose input
\* changed starts loading, the other keeps its state.
Requery(old, new) ==
    /\ findCityById' = IF new.id = old.id THEN findCityById ELSE Loading
    /\ findCityByName' = IF new.name = old.name THEN findCityByName
                         ELSE Loading

\* Whether a list of cities holds an entry with the id.
HasId(list, id) == \E n \in 1..Len(list) : list[n].id = id

\* searchCity's update of the saved list without the look-up of the id.
SavedAfterAlwaysPush(list, city) == Append(list, city)

\* The saved list after searchCity resolved city: pushed unless an entry
\* with its id is there.
SavedAfter(list, city) ==
    IF HasId(list, city.id) THEN list ELSE Append(list, city)

\* What searchCity resolves: no element for a run that ends in a toast, one
\* city otherwise.
Resolved ==
    IF searchValue.id = -1
    THEN {City(-1, searchValue.name, <<>>, searchValue.coord)}
    ELSE IF searchValue.id # 0 /\ searchValue.country # <<>>
    THEN IF findCityById.status = "loading" \/ findCityById.data.isArray
         THEN {}
         ELSE findCityById.data.city
    ELSE IF findCityByName.status = "loading" \/ findCityByName.data.isArray
         THEN {}
         ELSE findCityByName.data.city

\* The search page as it is while the server model runs: not in use.
SearchPageUnused ==
    /\ searchValue = EmptyCity
    /\ findCityById = Loading
    /\ findCityByName = Loading
    /\ addedCities = <<>>
    /\ activeCity = EmptyCity
    /\ runs = 0
    /\ lastRun = "none"

----------------------------------------------------------------------------
\* The state machine.

\* The limiter's budget and window: Ratelimit.slidingWindow(N, W).
N == TokensPerTime(env)
W == WindowSeconds(interval)

\* Environments the server is run with.
Envs ==
    {[UPSTASH_RATELIMITER_TOKENS_PER_TIME |-> <<"2">>,
      UPSTASH_RATELIMITER_TIME_INTERVAL |-> <<"2", "s">>],
     [UPSTASH_RATELIMITER_TOKENS_PER_TIME |-> <<"1">>,
      UPSTASH_RATELIMITER_TIME_INTERVAL |-> <<"2", " ", "s">>]}

NoHistory ==
    [windows |-> 0, allowed |-> 0, handlerRuns |-> 0, exhaustedAt |-> -1]

\* The server after the module body has run, before any call.
Init ==
    /\ env \in Envs
    /\ loaded = TRUE
    /\ interval = TimeInterval(env.UPSTASH_RATELIMITER_TIME_INTERVAL)
    /\ now = 0
    /\ store = [k \in Identifiers |-> Absent]
    /\ calls = [i \in Instances |-> Idle]
    /\ started = 0
    /\ hist = [k \in Identifiers |-> NoHistory]
    /\ SearchPageUnused

\* What one increment-and-read d of key k does to the store and to the
\* key's history; allowed tells whether the caller got an allowed decision.
Applied(k, d, allowed) ==
    /\ store' = [store EXCEPT ![k] = d.rec]
    /\ hist' = [hist EXCEPT ![k] =
          [@ EXCEPT !.windows = IF Live(store[k], now) THEN @ ELSE @ + 1,
                    !.allowed = IF allowed THEN @ + 1 ELSE @,
                    !.exhaustedAt = IF d.count = N THEN now
                                    ELSE IF Live(store[k], now) THEN @
                                    ELSE -1]]

\* A call arrives at instance i.
Call(i, class, ip, path) ==
    /\ calls[i].pc = "idle"
    /\ started < MaxCalls
    /\ calls' = [calls EXCEPT ![i] =
          Enter(class, [xForwardedFor |-> ip, path |-> path])]
    /\ started' = started + 1
    /\ UNCHANGED <<env, loaded, interval, now, store, hist,
                   searchVars>>

\* Consult with a denied call not written back to the store.
ConsultRefundsDenied(i) ==
    /\ calls[i].pc = "await"
    /\ LET k == calls[i].identifier
           d == limit(store[k], now, N, W)
       IN  /\ IF d.success
              THEN Applied(k, d, TRUE)
              ELSE UNCHANGED <<store, hist>>
           /\ calls' = [calls EXCEPT ![i] =
                 [@ EXCEPT !.pc = "resumed", !.success = d.success,
                           !.remaining = d.remaining,
                           !.consulted = "answered",
                           !.consults = IF @ < 2 THEN @ + 1 ELSE @,
                           !.count = d.count,
                           !.window = hist'[k].windows,
                           !.afterWindow = /\ hist[k].exhaustedAt >= 0
                                           /\ now >= hist[k].exhaustedAt + W]]
    /\ UNCHANGED <<env, loaded, interval, now, started,
                   searchVars>>

\* The store serves the awaited ratelimit.limit(identifier) of instance i.
Consult(i) ==
    /\ calls[i].pc = "await"
    /\ LET k == calls[i].identifier
           d == limit(store[k], now, N, W)
       IN  /\ Applied(k, d, d.success)
           /\ calls' = [calls EXCEPT ![i] =
                 [@ EXCEPT !.pc = "resumed", !.success = d.success,
                           !.remaining = d.remaining,
                           !.consulted = "answered",
                           !.consults = IF @ < 2 THEN @ + 1 ELSE @,
                           !.count = d.count,
                           !.window = hist'[k].windows,
                           !.afterWindow = /\ hist[k].exhaustedAt >= 0
                                           /\ now >= hist[k].exhaustedAt + W]]
    /\ UNCHANGED <<env, loaded, interval, now, started,
                   searchVars>>

\* The awaited store call of instance i throws (store unreachable or
\* erroring); the increment may or may not have been applied.
ConsultFails(i, applied) ==
    /\ calls[i].pc = "await"
    /\ LET k == calls[i].identifier
       IN  IF applied
           THEN Applied(k, limit(store[k], now, N, W), FALSE)
           ELSE UNCHANGED <<store, hist>>
    /\ calls' = [calls EXCEPT ![i] =
          Throw([@ EXCEPT !.consulted = "failed",
                          !.consults = IF @ < 2 THEN @ + 1 ELSE @])]
    /\ UNCHANGED <<env, loaded, interval, now, started,
                   searchVars>>

\* The client of instance i's call goes away while the store call is
\* awaited; nothing in the middleware watches for it.
Disconnect(i) ==
    /\ calls[i].pc = "await"
    /\ ~calls[i].disconnected
    /\ calls' = [calls EXCEPT ![i].disconnected = TRUE]
    /\ UNCHANGED <<env, loaded, interval, now, store, started, hist,
                   searchVars>>

\* The middleware of instance i continues after the await.
Proceed(i) ==
    /\ calls[i].pc = "resumed"
    /\ calls' = [calls EXCEPT ![i] = Resume(@, env)]
    /\ UNCHANGED <<env, loaded, interval, now, store, started, hist,
                   searchVars>>

\* The handler of instance i's call runs.
Handler(i) ==
    /\ calls[i].pc = "handler"
    /\ calls' = [calls EXCEPT ![i] = [@ EXCEPT !.pc = "done", !.outcome = Result]]
    /\ hist' = IF calls[i].identifier \in Identifiers
               THEN [hist EXCEPT ![calls[i].identifier].handlerRuns = @ + 1]
               ELSE hist
    /\ UNCHANGED <<env, loaded, interval, now, store, started,
                   searchVars>>

\* The response of instance i's call is sent; the instance is free again.
Respond(i) ==
    /\ calls[i].pc = "done"
    /\ calls' = [calls EXCEPT ![i] = Idle]
    /\ UNCHANGED <<env, loaded, interval, now, store, started, hist,
                   searchVars>>

\* A second passes.
Tick ==
    /\ now < MaxTime
    /\ now' = now + 1
    /\ UNCHANGED <<env, loaded, interval, store, calls, started, hist,
                   searchVars>>

Next ==
    \/ \E i \in Instances, class \in Classes, ip \in IPs, path \in Paths :
          Call(i, class, ip, path)
    \/ \E i \in Instances : Consult(i)
    \/ \E i \in Instances, applied \in BOOLEAN : ConsultFails(i, applied)
    \/ \E i \in Instances : Proceed(i)
    \/ \E i \in Instances : Handler(i)
    \/ \E i \in Instances : Respond(i)
    \/ Tick

Spec == Init /\ [][Next]_vars

\* Spec with the scheduling the calls can count on: the store client answers
\* or throws (it has its own timeout), the continuation of the await runs,
\* and a handler that was called returns.
Fairness ==
    \A i \in Instances :
        /\ WF_vars(Consult(i) \/ \E applied \in BOOLEAN : ConsultFails(i, applied))
        /\ WF_vars(Proceed(i))
        /\ WF_vars(Handler(i))

SpecLive == Spec /\ Fairness

\* Spec with clients that may go away while their call awaits the store, for
\* the server run with a valid window string.
InitCancel ==
    /\ Init
    /\ validateDuration(env.UPSTASH_RATELIMITER_TIME_INTERVAL)

NextCancel ==
    \/ Next
    \/ \E i \in Instances : Disconnect(i)

SpecCancel == InitCancel /\ [][NextCancel]_vars

----------------------------------------------------------------------------
\* Startup alone, over every configured window string up to MaxLen.

ConfigAlphabet == {"1", "5", "d", "h", "m", "s", "x", " "}

InitConfig ==
    /\ env \in [UPSTASH_RATELIMITER_TOKENS_PER_TIME : {<<"2">>},
                UPSTASH_RATELIMITER_TIME_INTERVAL :
                    StringsUpTo(ConfigAlphabet, MaxLen)]
    /\ loaded = FALSE
    /\ interval = <<>>
    /\ now = 0
    /\ store = [k \in Identifiers |-> Absent]
    /\ calls = [i \in Instances |-> Idle]
    /\ started = 0
    /\ hist = [k \in Identifiers |-> NoHistory]
    /\ SearchPageUnused

\* The module body of trpc.ts runs: the window constant is set.
LoadModule ==
    /\ ~loaded
    /\ loaded' = TRUE
    /\ interval' = TimeInterval(env.UPSTASH_RATELIMITER_TIME_INTERVAL)
    /\ UNCHANGED <<env, now, store, calls, started, hist,
                   searchVars>>

NextConfig == LoadModule

SpecConfig == InitConfig /\ [][NextConfig]_vars

----------------------------------------------------------------------------
\* The search page alone.

serverVars == <<env, loaded, interval, now, store, calls, started, hist>>

\* Cities a saved list may hold when the page opens.
SavedUniverse == Catalog \cup {MyCity(c) : c \in Coords}

\* Lists of n cities with pairwise distinct ids.
SavedLists(n) ==
    {l \in [1..n -> SavedUniverse] :
        \A a, b \in 1..n : a # b => l[a].id # l[b].id}

InitSearch ==
    /\ env = CHOOSE e \in Envs : validateDuration(e.UPSTASH_RATELIMITER_TIME_INTERVAL)
    /\ loaded = TRUE
    /\ interval = TimeInterval(env.UPSTASH_RATELIMITER_TIME_INTERVAL)
    /\ now = 0
    /\ store = [k \in Identifiers |-> Absent]
    /\ calls = [i \in Instances |-> Idle]
    /\ started = 0
    /\ hist = [k \in Identifiers |-> NoHistory]
    /\ searchValue = EmptyCity
    /\ findCityById = Loading
    /\ findCityByName = Loading
    /\ addedCities \in SavedLists(0) \cup SavedLists(1) \cup SavedLists(2)
    /\ activeCity \in {EmptyCity} \cup Catalog
    /\ runs = 0
    /\ lastRun = "none"

\* onChange of the input: the typed name, id 0, the other fields kept.
Type(name) ==
    /\ name # searchValue.name
    /\ searchValue' = [searchValue EXCEPT !.id = 0, !.name = name]
    /\ Requery(searchValue, searchValue')
    /\ UNCHANGED <<serverVars, addedCities, activeCity, runs, lastRun>>

\* onMouseDown on a listed result: a city of the lookup service whose name
\* starts with the name in the input.
Select(city) ==
    /\ HasAt(city.name, 1, searchValue.name)
    /\ searchValue' = City(city.id, city.name, city.country, city.coord)
    /\ searchValue' # searchValue
    /\ Requery(searchValue, searchValue')
    /\ UNCHANGED <<serverVars, addedCities, activeCity, runs, lastRun>>

\* The "my city" button, once the browser reports a position.
Geolocate(coord) ==
    /\ searchValue' = MyCity(coord)
    /\ searchValue' # searchValue
    /\ Requery(searchValue, searchValue')
    /\ UNCHANGED <<serverVars, addedCities, activeCity, runs, lastRun>>

\* api.search.findCityById answers, or fails.
ResolveById(ok) ==
    /\ findCityById.status = "loading"
    /\ findCityById' = IF ok
                       THEN [status |-> "success",
                             data |-> CityById(searchValue.id)]
                       ELSE [status |-> "error", data |-> NoData]
    /\ UNCHANGED <<serverVars, searchValue, findCityByName, addedCities,
                   activeCity, runs, lastRun>>

\* api.search.findCityByName answers, or fails.
ResolveByName(ok) ==
    /\ findCityByName.status = "loading"
    /\ findCityByName' = IF ok
                         THEN [status |-> "success",
                               data |-> CityByName(searchValue.name)]
                         ELSE [status |-> "error", data |-> NoData]
    /\ UNCHANGED <<serverVars, searchValue, findCityById, addedCities,
                   activeCity, runs, lastRun>>

\* searchCity: the "continue" button or the Enter key.
searchCity ==
    /\ runs < MaxRuns
    /\ runs' = runs + 1
    /\ IF Resolved = {}
       THEN /\ lastRun' = "toast"
            /\ UNCHANGED <<addedCities, activeCity>>
       ELSE \E city \in Resolved :
                /\ addedCities' = SavedAfter(addedCities, city)
                /\ activeCity' = city
                /\ lastRun' = "resolved"
    /\ UNCHANGED <<serverVars, searchValue, findCityById, findCityByName>>

NextSearch ==
    \/ \E name \in TypedNames : Type(name)
    \/ \E city \in Catalog : Select(city)
    \/ \E coord \in Coords : Geolocate(coord)
    \/ \E ok \in BOOLEAN : ResolveById(ok)
    \/ \E ok \in BOOLEAN : ResolveByName(ok)
    \/ searchCity

SpecSearch == InitSearch /\ [][NextSearch]_vars

----------------------------------------------------------------------------
\* Properties.

\* Whether call c has both quota headers, with the configured budget and
\* the decision's remaining value.
HasQuotaHeaders(c) ==
    /\ DOMAIN c.res = {"X-RateLimit-Limit", "X-RateLimit-Remaining"}
    /\ parseInt(c.res["X-RateLimit-Limit"]) = N
    /\ c.res["X-RateLimit-Remaining"] = c.remaining

\* Whether the middleware of call c has run past its await.
Past(c) == c.pc \in {"handler", "done"}

\* C1: a guarded call whose post-increment count c is at most N is allowed
\* (it is not rejected and goes on to its handler) and the remaining budget
\* it reports is exactly N - c.
C1_AllowedWithinBudget ==
    \A i \in Instances :
        LET c == calls[i]
        IN  (c.consulted = "answered" /\ c.count <= N) =>
                /\ c.success
                /\ c.remaining = N - c.count
                /\ c.outcome # RateLimitError
                /\ Past(c) =>
                      /\ c.res["X-RateLimit-Remaining"] = N - c.count
                      /\ c.pc = "handler" \/ c.outcome = Result

\* A call with count N (the last of the budget) has run its handler and
\* reported 0 remaining.
C1_Witness ==
    \E i \in Instances :
        /\ calls[i].consulted = "answered"
        /\ N = 2 /\ calls[i].count = N
        /\ calls[i].outcome = Result
        /\ calls[i].res["X-RateLimit-Remaining"] = 0

\* C2: a guarded call whose post-increment count exceeds N (the (N+1)-th
\* of a window among them) is denied with remaining 0 and never reaches its
\* handler; the handler has run at most N times per window of a key.
C2_DeniedBeyondBudget ==
    /\ \A i \in Instances :
          LET c == calls[i]
          IN  (c.consulted = "answered" /\ c.count > N) =>
                  /\ ~c.success
                  /\ c.remaining = 0
                  /\ c.pc # "handler"
                  /\ c.outcome # Result
                  /\ c.pc = "done" => c.outcome = RateLimitError
    /\ \A k \in Identifiers :
          hist[k].handlerRuns <= N * hist[k].windows

\* The (N+1)-th call of a key's first window has been rejected, with the
\* handler run N times for the key.
C2_Witness ==
    \E i \in Instances :
        /\ calls[i].count = N + 1
        /\ calls[i].outcome = RateLimitError
        /\ hist[calls[i].identifier].windows = 1
        /\ hist[calls[i].identifier].handlerRuns = N

\* C3: a guarded call whose store call throws ends with an error, never has
\* an allowed decision and never reaches its handler.
C3_FailClosed ==
    \A i \in Instances :
        LET c == calls[i]
        IN  c.consulted = "failed" =>
                /\ c.pc = "done"
                /\ c.outcome.type = "error"
                /\ ~c.success

\* A call whose store call threw has ended with the error.
C3_Witness ==
    \E i \in Instances :
        /\ calls[i].consulted = "failed"
        /\ calls[i].pc = "done"
        /\ calls[i].outcome = StoreError

\* Whether call c ended as a quota rejection: the store answered, with a
\* decision that is not a success.
QuotaRejected(c) ==
    c.pc = "done" /\ c.consulted = "answered" /\ ~c.success

\* Whether call c ended as an infrastructure error: its store call threw.
InfrastructureFailed(c) ==
    c.pc = "done" /\ c.consulted = "failed"

\* C4: the code of a quota rejection differs from the code of every other
\* failure class, here the infrastructure error of a failed store call.
C4_QuotaCodeDistinct ==
    \A i, j \in Instances :
        (QuotaRejected(calls[i]) /\ InfrastructureFailed(calls[j])) =>
            calls[i].outcome.code # calls[j].outcome.code

\* C5: guarded calls from one address to one operation use the same identity
\* key, those to different operations use different keys, and a consult for
\* one operation leaves the store's record of every other operation of that
\* address as it was.
C5_PerOperationIsolation ==
    /\ [](\A i, j \in Instances :
            (/\ calls[i].class = "rateLimited"
             /\ calls[j].class = "rateLimited"
             /\ calls[i].ip = calls[j].ip) =>
                (calls[i].path = calls[j].path
                    <=> calls[i].identifier = calls[j].identifier))
    /\ [][\A i \in Instances :
            (calls[i].pc = "await" /\ calls'[i].pc # "await") =>
                \A q \in Paths \ {calls[i].path} :
                    store'[identifier(calls[i].ip, q)]
                        = store[identifier(calls[i].ip, q)]]_vars

\* Operation A of an address is exhausted and denied while operation B of
\* the same address has its first call allowed with the whole budget less one.
C5_Witness ==
    \E i, j \in Instances :
        /\ calls[i].ip = calls[j].ip
        /\ calls[i].path # calls[j].path
        /\ calls[i].consulted = "answered" /\ calls[i].count = N + 1
        /\ calls[j].consulted = "answered" /\ calls[j].count = 1
        /\ calls[j].remaining = N - 1
        /\ store[calls[i].identifier].count = N + 1
        /\ store[calls[j].identifier].count = 1

\* C6: the first call for a key at least W after the key was exhausted is
\* allowed and reports remaining = N - 1, as for a key the store never held.
C6_FreshAfterWindow ==
    \A i \in Instances :
        LET c == calls[i]
        IN  (c.consulted = "answered" /\ c.afterWindow) =>
                /\ c.count = 1
                /\ c.success
                /\ c.remaining = N - 1
                /\ c.outcome # RateLimitError
                /\ Past(c) => c.res["X-RateLimit-Remaining"] = N - 1

\* A key was exhausted, W passed, and the next call for it has run its
\* handler in the key's second window.
C6_Witness ==
    \E i \in Instances :
        /\ calls[i].consulted = "answered"
        /\ calls[i].afterWindow
        /\ calls[i].outcome = Result
        /\ hist[calls[i].identifier].windows = 2

\* C7: whatever the interleaving of the instances, no two calls of one
\* window of a key are given the same post-increment count, the store's
\* count is never behind a count it handed out, and at most N calls are
\* allowed per window of a key.
C7_NoLostUpdate ==
    /\ \A i, j \in Instances :
          (/\ i # j
           /\ calls[i].consulted = "answered"
           /\ calls[j].consulted = "answered"
           /\ calls[i].identifier = calls[j].identifier
           /\ calls[i].window = calls[j].window) =>
              calls[i].count # calls[j].count
    /\ \A i \in Instances :
          (/\ calls[i].consulted = "answered"
           /\ calls[i].window = hist[calls[i].identifier].windows) =>
              calls[i].count <= store[calls[i].identifier].count
    /\ \A k \in Identifiers :
          hist[k].allowed <= N * hist[k].windows

\* Two instances hold decisions for the same key and window at once: one
\* took the last of the budget, the other was denied.
C7_Witness ==
    \E i, j \in Instances :
        /\ i # j
        /\ calls[i].pc = "resumed" /\ calls[j].pc = "resumed"
        /\ calls[i].identifier = calls[j].identifier
        /\ calls[i].window = calls[j].window
        /\ calls[i].count = N /\ calls[i].success
        /\ calls[j].count = N + 1 /\ ~calls[j].success

\* C8 as stated: every guarded call that is past its middleware, whatever
\* its outcome, has both quota headers set.
C8_HeadersAlways ==
    \A i \in Instances :
        (calls[i].class = "rateLimited" /\ Past(calls[i])) =>
            HasQuotaHeaders(calls[i])

\* C8, amended: every guarded call for which the store returned a decision
\* has both quota headers set, on allow and on deny alike, before its
\* handler runs or its rejection is raised; a guarded call whose store call
\* threw has neither.
C8_HeadersOnDecision ==
    \A i \in Instances :
        LET c == calls[i]
        IN  /\ (c.consulted = "answered" /\ Past(c)) => HasQuotaHeaders(c)
            /\ c.consulted = "failed" => c.res = <<>>

\* A denied call has been rejected with both headers set, remaining 0.
C8_Witness ==
    \E i \in Instances :
        /\ calls[i].outcome = RateLimitError
        /\ HasQuotaHeaders(calls[i])
        /\ calls[i].res["X-RateLimit-Remaining"] = 0

\* <integer><unit>: one or more decimal digits, then one of ms, s, m, h, d,
\* and nothing else.
IsIntegerUnit(s) ==
    \E k \in 1..(Len(s) - 1) :
        /\ SubSeq(s, 1, k) \in [1..k -> Digits]
        /\ SubSeq(s, k + 1, Len(s)) \in
              {<<"m", "s">>, <<"s">>, <<"m">>, <<"h">>, <<"d">>}

\* C9: once the module has loaded, the limiter's window is the configured
\* string when that is <integer><unit>, and "1d" for every other string;
\* loading never fails, whatever the string.
C9_WindowValidated ==
    /\ loaded =>
          interval = IF IsIntegerUnit(env.UPSTASH_RATELIMITER_TIME_INTERVAL)
                     THEN env.UPSTASH_RATELIMITER_TIME_INTERVAL
                     ELSE <<"1", "d">>
    /\ ~loaded => ENABLED LoadModule

\* The module has loaded with the window configured as "5x" and uses "1d".
C9_Witness ==
    /\ loaded
    /\ env.UPSTASH_RATELIMITER_TIME_INTERVAL = <<"5", "x">>
    /\ interval = <<"1", "d">>

\* C10: a call through publicProcedure is never the subject of a store call
\* and goes to its handler with no quota header; a call through
\* rateLimitedProcedure is at or past its handler only after the store was
\* consulted for it and answered with an allowed decision.
C10_ProcedureClasses ==
    \A i \in Instances :
        LET c == calls[i]
        IN  /\ c.class = "public" =>
                  /\ c.consulted = "no"
                  /\ c.pc \in {"handler", "done"}
                  /\ c.res = <<>>
                  /\ c.pc = "done" => c.outcome = Result
            /\ (c.class = "rateLimited"
                    /\ (c.pc = "handler" \/ c.outcome = Result)) =>
                  /\ c.consulted = "answered"
                  /\ c.success

\* A public call has run its handler while the same operation's key is
\* exhausted, and a guarded call has run its handler after an allowed
\* decision.
C10_Witness ==
    \E i, j \in Instances :
        /\ calls[i].class = "public"
        /\ calls[i].outcome = Result
        /\ store[identifier(calls[i].ip, calls[i].path)].count > N
        /\ calls[j].class = "rateLimited"
        /\ calls[j].outcome = Result

\* Whether the outcome of a finished guarded call c is the one its store
\* call led to.
TerminalOutcome(c) ==
    \/ c.consulted = "answered" /\ c.success /\ c.outcome = Result
    \/ c.consulted = "answered" /\ ~c.success /\ c.outcome = RateLimitError
    \/ c.consulted = "failed" /\ c.outcome = StoreError

\* C11: the middleware awaits the store once per guarded call and never
\* again; a finished guarded call has the one outcome its store call led to
\* (handler result, quota rejection or infrastructure error) and an
\* unfinished one has none; and, the store client answering or throwing,
\* every guarded call that awaits the store finishes.
C11_OneTerminalOutcome ==
    /\ [](\A i \in Instances :
            LET c == calls[i]
            IN  /\ c.consults <= 1
                /\ (c.class = "rateLimited"
                        /\ c.pc \in {"resumed", "handler", "done"}) =>
                      c.consults = 1
                /\ (c.class = "rateLimited" /\ c.pc = "done") =>
                      TerminalOutcome(c)
                /\ c.pc # "done" => c.outcome = NoOutcome)
    /\ \A i \in Instances :
          (calls[i].pc = "await") ~> (calls[i].pc = "done")

\* One guarded call has ended with the infrastructure error and another with
\* the quota rejection, each after a single store call.
C11_Witness ==
    \E i, j \in Instances :
        /\ calls[i].pc = "done" /\ calls[i].outcome = StoreError
        /\ calls[i].consults = 1
        /\ calls[j].pc = "done" /\ calls[j].outcome = RateLimitError
        /\ calls[j].consults = 1

\* The count the store holds for key k within the window at the current
\* time: 0 when the key is absent or its window has elapsed.
CountNow(k) == IF Live(store[k], now) THEN store[k].count ELSE 0

\* C12 as stated: every guarded call adds exactly one to its key's count, in
\* the step that ends its await of the store.
C12_IncrementsOnce ==
    [][\A i \in Instances :
          (calls[i].pc = "await" /\ calls'[i].pc # "await") =>
              store'[calls[i].identifier].count
                  = CountNow(calls[i].identifier) + 1]_vars

\* C12, amended: every guarded call whose store call is answered adds
\* exactly one to its key's count in the step that ends its await, whether it
\* is then denied and whether its client has gone away; a call whose store
\* call throws adds one or nothing; no other step changes the store; and
\* within a window a key's count never decreases.
C12_AnsweredIncrementsOnce ==
    /\ [][\A i \in Instances :
            LET k == calls[i].identifier
            IN  /\ (calls[i].pc = "await" /\ calls'[i].pc = "resumed") =>
                      store'[k].count = CountNow(k) + 1
                /\ (calls[i].pc = "await" /\ calls'[i].pc = "done") =>
                      \/ store'[k] = store[k]
                      \/ store'[k].count = CountNow(k) + 1]_vars
    /\ [][store' # store =>
            \E i \in Instances :
                /\ calls[i].pc = "await" /\ calls'[i].pc # "await"
                /\ \A k \in Identifiers \ {calls[i].identifier} :
                      store'[k] = store[k]]_vars
    /\ [][\A k \in Identifiers :
            hist'[k].windows = hist[k].windows =>
                store'[k].count >= store[k].count]_vars

\* A call whose client went away before the store answered was denied as
\* the (N+1)-th of its window, and the store counts it.
C12_Witness ==
    \E i \in Instances :
        /\ calls[i].disconnected
        /\ calls[i].consulted = "answered"
        /\ ~calls[i].success
        /\ calls[i].count = N + 1
        /\ store[calls[i].identifier].count = N + 1

\* Whether the ids of a list of cities are pairwise distinct.
DistinctIds(list) ==
    \A a, b \in 1..Len(list) : a # b => list[a].id # list[b].id

\* C13: the saved list, with pairwise distinct ids when the page opens, keeps
\* pairwise distinct ids through every searchCity run, and after a run that
\* resolved a city the active city's id is the id of a saved city.
C13_SavedIdsDistinct ==
    /\ DistinctIds(addedCities)
    /\ lastRun = "resolved" => HasId(addedCities, activeCity.id)

\* A run resolved the geolocation city while an entry with id -1 was saved:
\* the active city has id -1 and other coordinates than the saved entry.
C13_Witness ==
    /\ lastRun = "resolved"
    /\ activeCity.id = -1
    /\ \E n \in 1..Len(addedCities) :
          /\ addedCities[n].id = -1
          /\ addedCities[n].coord # activeCity.coord

====
